---- MODULE Spec2Model ----
(***************************************************************************)
(* bevy_observed_timers: the Timers component (an IndexMap from a tag's    *)
(* ComponentId to a bevy_time Timer), the tick_entity_timers system and    *)
(* the five entity commands StartTimer, ResetTimer, PauseTimer,            *)
(* UnpauseTimer and CancelTimer.                                           *)
(*                                                                         *)
(* A Timers map is a sequence of entries [tag, timer] in IndexMap order.   *)
(* A Timer is the record bevy_time keeps: duration, mode, the stopwatch's  *)
(* elapsed and paused, finished and times_finished_this_tick.  Durations   *)
(* and deltas are whole time units.                                        *)
(***************************************************************************)
EXTENDS Integers, Sequences, FiniteSets

VARIABLES
    alive,      \* alive[e]: the world still holds entity e
    hasTimers,  \* hasTimers[e]: e carries a Timers component
    timers,     \* timers[e]: the IndexMap of e's Timers component, in order
    emitted,    \* the triggers the last operation enqueued, in order
    hist,       \* hist[e][t]: history of the timer instance last started at (e,t)
    cancelled,  \* cancelled[e][t]: OnTimerCancelled triggers emitted for (e,t)
    cancelHits, \* cancelHits[e][t]: CancelTimer applications that removed t from e
    starts,     \* StartTimer commands applied so far
    ticks,      \* tick_entity_timers runs so far
    queue,      \* the commands queued and not yet applied, oldest first
    applied     \* the command the last step of a flush took from the queue

vars == <<alive, hasTimers, timers, emitted, hist, cancelled, cancelHits,
          starts, ticks, queue, applied>>

-----------------------------------------------------------------------------
(* Bounds of the model *)

\* the one non-zero duration timers are started with
Period == 2
\* the largest delta of one tick: two full periods
MaxDelta == 2 * Period
\* StartTimer commands applied in one behaviour
MaxStarts == 2
\* tick_entity_timers runs in one behaviour
MaxTicks == 2
\* tick_entity_timers runs in one behaviour of the three-tag host
OrderTicks == 1

Entities == {"e1", "e2"}
Tags == {"A", "B", "C"}
Durations == {0, Period}
Deltas == 0 .. MaxDelta

Once == "Once"
Repeating == "Repeating"
TimerModes == {Once, Repeating}

\* u32::MAX, which times_finished_this_tick takes for a zero duration; TLC's
\* integers end at 2^31 - 1, and the crate reads the field only as "> 0"
U32Max == 2147483647

-----------------------------------------------------------------------------
(* bevy_time::Timer, as the crate uses it *)

\* Timer::new(duration, mode): nothing elapsed, running, not finished
NewTimer(duration, mode) ==
    [duration |-> duration, mode |-> mode, elapsed |-> 0, paused |-> FALSE,
     finished |-> FALSE, times_finished_this_tick |-> 0]

\* Timer::tick on a paused timer: nothing advances, nothing just finished
PausedTick(t) ==
    [t EXCEPT !.times_finished_this_tick = 0,
              !.finished = IF t.mode = Repeating THEN FALSE ELSE @]

\* a running tick that finishes only beyond the duration ("<" for "<=")
RunningTickStrict(t, delta) ==
    IF t.mode # Repeating /\ t.finished
    THEN [t EXCEPT !.times_finished_this_tick = 0]
    ELSE LET el == t.elapsed + delta
         IN  IF el > t.duration
             THEN IF t.mode = Repeating
                  THEN [t EXCEPT !.finished = TRUE,
                                 !.times_finished_this_tick =
                                     IF t.duration = 0 THEN U32Max
                                     ELSE el \div t.duration,
                                 !.elapsed =
                                     IF t.duration = 0 THEN 0
                                     ELSE el % t.duration]
                  ELSE [t EXCEPT !.finished = TRUE,
                                 !.times_finished_this_tick = 1,
                                 !.elapsed = t.duration]
             ELSE [t EXCEPT !.finished = FALSE,
                            !.times_finished_this_tick = 0,
                            !.elapsed = el]

\* a running tick that does not wrap a Repeating timer: elapsed keeps the
\* whole sum
RunningTickNoWrap(t, delta) ==
    IF t.mode # Repeating /\ t.finished
    THEN [t EXCEPT !.times_finished_this_tick = 0]
    ELSE LET el == t.elapsed + delta
         IN  IF el >= t.duration
             THEN IF t.mode = Repeating
                  THEN [t EXCEPT !.finished = TRUE,
                                 !.times_finished_this_tick =
                                     IF t.duration = 0 THEN U32Max
                                     ELSE el \div t.duration,
                                 !.elapsed = el]
                  ELSE [t EXCEPT !.finished = TRUE,
                                 !.times_finished_this_tick = 1,
                                 !.elapsed = t.duration]
             ELSE [t EXCEPT !.finished = FALSE,
                            !.times_finished_this_tick = 0,
                            !.elapsed = el]

\* Timer::tick on a running timer: the stopwatch advances by delta; a
\* Repeating timer wraps and counts the periods, a Once timer stops at its
\* duration
RunningTick(t, delta) ==
    IF t.mode # Repeating /\ t.finished
    THEN [t EXCEPT !.times_finished_this_tick = 0]
    ELSE LET el == t.elapsed + delta
         IN  IF el >= t.duration
             THEN IF t.mode = Repeating
                  THEN [t EXCEPT !.finished = TRUE,
                                 !.times_finished_this_tick =
                                     IF t.duration = 0 THEN U32Max
                                     ELSE el \div t.duration,
                                 !.elapsed =
                                     IF t.duration = 0 THEN 0
                                     ELSE el % t.duration]
                  ELSE [t EXCEPT !.finished = TRUE,
                                 !.times_finished_this_tick = 1,
                                 !.elapsed = t.duration]
             ELSE [t EXCEPT !.finished = FALSE,
                            !.times_finished_this_tick = 0,
                            !.elapsed = el]

\* a tick that does not look at the paused flag
TimerTickNoPause(t, delta) ==
    RunningTick(t, delta)

\* Timer::tick(delta)
TimerTick(t, delta) ==
    IF t.paused THEN PausedTick(t) ELSE RunningTick(t, delta)

\* ">= 0" for "> 0": every ticked timer counts as just finished
JustFinishedOrZero(t) ==
    t.times_finished_this_tick >= 0

\* Timer::just_finished()
JustFinished(t) == t.times_finished_this_tick > 0

\* a reset that rebuilds the timer and so loses the paused flag
TimerResetFresh(t) ==
    NewTimer(t.duration, t.mode)

\* Timer::reset()
TimerReset(t) ==
    [t EXCEPT !.elapsed = 0, !.finished = FALSE, !.times_finished_this_tick = 0]

\* Timer::pause()
TimerPause(t) == [t EXCEPT !.paused = TRUE]

\* Timer::unpause()
TimerUnpause(t) == [t EXCEPT !.paused = FALSE]

-----------------------------------------------------------------------------
(* Timers: the IndexMap<ComponentId, Timer> *)

\* the position of tag in the map, 0 when absent
IndexOf(m, tag) ==
    IF \E i \in 1 .. Len(m) : m[i].tag = tag
    THEN CHOOSE i \in 1 .. Len(m) : m[i].tag = tag
    ELSE 0

\* Timers::get / Timers::get_mut found an entry
Has(m, tag) == IndexOf(m, tag) # 0

\* Timers::get: the timer at tag (only where Has)
Get(m, tag) == m[IndexOf(m, tag)].timer

\* the tags of the map in iteration order (Timers::iter)
Keys(m) == [i \in 1 .. Len(m) |-> m[i].tag]

\* an insert that keeps the timer already at the tag (entry().or_insert)
InsertKeep(m, tag, timer) ==
    IF \E i \in 1 .. Len(m) : m[i].tag = tag THEN m
    ELSE Append(m, [tag |-> tag, timer |-> timer])

\* an insert that removes the tag's entry and appends the new one
InsertMove(m, tag, timer) ==
    Append(SelectSeq(m, LAMBDA x : x.tag # tag), [tag |-> tag, timer |-> timer])

\* Timers::insert: IndexMap::insert replaces the value in place, or appends
Insert(m, tag, timer) ==
    IF Has(m, tag)
    THEN [m EXCEPT ![IndexOf(m, tag)].timer = timer]
    ELSE Append(m, [tag |-> tag, timer |-> timer])

\* a remove that cuts the map at the tag (truncate for swap_remove)
SwapRemoveTruncate(m, tag) ==
    IF \E i \in 1 .. Len(m) : m[i].tag = tag
    THEN SubSeq(m, 1, (CHOOSE i \in 1 .. Len(m) : m[i].tag = tag) - 1)
    ELSE m

\* Timers::remove: IndexMap::swap_remove moves the last entry into the hole
SwapRemove(m, tag) ==
    LET i == IndexOf(m, tag)
        n == Len(m)
    IN  IF i = 0 THEN m
        ELSE IF i = n THEN SubSeq(m, 1, n - 1)
        ELSE SubSeq([m EXCEPT ![i] = m[n]], 1, n - 1)

\* get_mut(tag) followed by a store through the reference
Put(m, tag, timer) ==
    [m EXCEPT ![IndexOf(m, tag)].timer = timer]

-----------------------------------------------------------------------------
(* tick_entity_timers, for one entity *)

\* the iter_mut loop: every timer ticked by the shared delta, in place
Advance(m, delta) ==
    [i \in 1 .. Len(m) |->
        [tag |-> m[i].tag, timer |-> TimerTick(m[i].timer, delta)]]

\* the tags whose timers just finished, in iteration order
FinishedTags(m) ==
    Keys(SelectSeq(m, LAMBDA x : JustFinished(x.timer)))

\* the mode test inverted: Repeating timers are collected, Once timers stay
SweepListRepeating(m) ==
    Keys(SelectSeq(m, LAMBDA x : JustFinished(x.timer) /\ x.timer.mode = Repeating))

\* the mode test left out: every just finished timer is collected
SweepListAll(m) ==
    Keys(SelectSeq(m, LAMBDA x : JustFinished(x.timer)))

\* nothing is pushed to finished_timers
SweepListNone(m) == <<>>

\* finished_timers: the just finished tags whose mode is Once
SweepList(m) ==
    Keys(SelectSeq(m, LAMBDA x : JustFinished(x.timer) /\ x.timer.mode = Once))

\* the loop over finished_timers: one swap_remove each, in order
RECURSIVE Sweep(_, _)
Sweep(m, tags) ==
    IF tags = <<>> THEN m
    ELSE Sweep(SwapRemove(m, Head(tags)), Tail(tags))

\* the loop over finished_timers left out: the timers are only ticked
TickMapAdvanceOnly(m, delta) == Advance(m, delta)

\* the map an entity is left with by one tick
TickMap(m, delta) ==
    LET adv == Advance(m, delta)
    IN  Sweep(adv, SweepList(adv))

OnTimerFinished == "OnTimerFinished"
OnTimerCancelled == "OnTimerCancelled"

\* trigger_targets(event, TargetBoth(entity, component))
Trigger(event, e, tag) == [event |-> event, entity |-> e, tag |-> tag]

\* the test of just_finished left out: a trigger for every timer of the map
TickTriggersAll(e, m, delta) ==
    [i \in 1 .. Len(m) |-> Trigger(OnTimerFinished, e, m[i].tag)]

\* the triggers of one entity enqueued last timer first
TickTriggersReversed(e, m, delta) ==
    LET f == FinishedTags(Advance(m, delta))
    IN  [i \in 1 .. Len(f) |-> Trigger(OnTimerFinished, e, f[Len(f) + 1 - i])]

\* the triggers one entity's tick enqueues, in order
TickTriggers(e, m, delta) ==
    LET f == FinishedTags(Advance(m, delta))
    IN  [i \in 1 .. Len(f) |-> Trigger(OnTimerFinished, e, f[i])]

\* par_iter_mut: the entities of the query in the order their triggers land
Orders(S) ==
    {s \in [1 .. Cardinality(S) -> S] : \A x \in S : \E i \in DOMAIN s : s[i] = x}

\* only the triggers of the entity that was processed first are kept
AllTriggersFirst(ord, ts, delta) ==
    IF ord = <<>> THEN <<>>
    ELSE TickTriggers(Head(ord), ts[Head(ord)], delta)

\* the triggers of one tick_entity_timers run, entity after entity
RECURSIVE AllTriggers(_, _, _)
AllTriggers(ord, ts, delta) ==
    IF ord = <<>> THEN <<>>
    ELSE TickTriggers(Head(ord), ts[Head(ord)], delta)
             \o AllTriggers(Tail(ord), ts, delta)

-----------------------------------------------------------------------------
(* The command queue: EntityCommands::queue and Commands::trigger_targets *)

StartOp == "start_timer"
ResetOp == "reset_timer"
PauseOp == "pause_timer"
UnpauseOp == "unpause_timer"
CancelOp == "cancel_timer"
TriggerOp == "trigger_targets"

\* who queued a command: a system or the code of the host, the
\* tick_entity_timers system, or an observer of OnTimerFinished
Host == "host"
TickSystem == "tick_entity_timers"
Observer == "observer"

\* the timer field of a command that carries none
NoTimer == NewTimer(0, Once)

\* a queued command: op on the timer of tag at entity; only a start carries
\* a timer
Command(op, e, tag, timer, by) ==
    [op |-> op, entity |-> e, tag |-> tag, timer |-> timer, by |-> by]

\* no flush has applied anything yet
NoCommand == Command("none", "none", "none", NoTimer, "none")

-----------------------------------------------------------------------------
(* History of the timer instance last started at (e, t) *)

\* nothing was ever started at the tag
NoHist ==
    [started |-> FALSE, duration |-> 0, mode |-> Once, cum |-> 0, held |-> 0,
     fin |-> 0, wasReset |-> FALSE, removed |-> FALSE, entered |-> 0]

\* a timer was just started: nothing ticked, nothing emitted, never reset,
\* cancelled or despawned; entered is the number of the start that put the
\* tag into the map (a start that replaces a timer leaves the tag where it is)
NewHist(h, timer, replaces) ==
    [started |-> TRUE, duration |-> timer.duration, mode |-> timer.mode,
     cum |-> 0, held |-> 0, fin |-> 0, wasReset |-> FALSE, removed |-> FALSE,
     entered |-> IF replaces THEN h.entered ELSE starts + 1]

\* how often the trigger occurs in a sequence of triggers
Count(seq, trig) == Cardinality({i \in 1 .. Len(seq) : seq[i] = trig})

\* one tick of delta is over: cum is the delta of every tick since the start
\* or the last reset (until a cancel or despawn), held the delta of the ticks
\* that met the timer paused, fin the OnTimerFinished triggers since the start
TickHist(h, e, t, delta) ==
    [h EXCEPT !.cum = IF h.started /\ ~h.removed THEN @ + delta ELSE @,
              !.held = IF hasTimers[e] /\ Has(timers[e], t)
                          /\ Get(timers[e], t).paused
                       THEN @ + delta ELSE @,
              !.fin = @ + Count(emitted', Trigger(OnTimerFinished, e, t))]

\* the OnTimerCancelled triggers so far, the last operation's included
TallyCancelled ==
    [e \in Entities |-> [t \in Tags |->
        cancelled[e][t] + Count(emitted', Trigger(OnTimerCancelled, e, t))]]

\* the unpaused delta the instance was ticked with since start or reset
Run(h) == h.cum - h.held

-----------------------------------------------------------------------------
Init ==
    /\ alive = [e \in Entities |-> TRUE]
    /\ hasTimers = [e \in Entities |-> FALSE]
    /\ timers = [e \in Entities |-> <<>>]
    /\ emitted = <<>>
    /\ hist = [e \in Entities |-> [t \in Tags |-> NoHist]]
    /\ cancelled = [e \in Entities |-> [t \in Tags |-> 0]]
    /\ cancelHits = [e \in Entities |-> [t \in Tags |-> 0]]
    /\ starts = 0
    /\ ticks = 0
    /\ queue = <<>>
    /\ applied = NoCommand

\* the command found the entity, its Timers component and the tag
Found(e, t) == alive[e] /\ hasTimers[e] /\ Has(timers[e], t)

\* StartTimer::apply
StartTimer(e, t, timer) ==
    /\ starts' = starts + 1
    /\ emitted' = <<>>
    /\ IF alive[e]
       THEN /\ hasTimers' = [hasTimers EXCEPT ![e] = TRUE]
            /\ timers' = [timers EXCEPT ![e] = Insert(@, t, timer)]
            /\ hist' = [hist EXCEPT ![e][t] = NewHist(@, timer, Found(e, t))]
       ELSE UNCHANGED <<hasTimers, timers, hist>>
    /\ UNCHANGED <<alive, cancelled, cancelHits, ticks>>

\* ResetTimer::apply
ResetTimer(e, t) ==
    /\ emitted' = <<>>
    /\ IF Found(e, t)
       THEN /\ timers' = [timers EXCEPT
                              ![e] = Put(@, t, TimerReset(Get(@, t)))]
            /\ hist' = [hist EXCEPT ![e][t].cum = 0, ![e][t].held = 0,
                                     ![e][t].wasReset = TRUE]
       ELSE UNCHANGED <<timers, hist>>
    /\ UNCHANGED <<alive, hasTimers, cancelled, cancelHits, starts, ticks>>

\* a pause that fetches the component with entry().or_default(), as start does
PauseTimerCreates(e, t) ==
    /\ emitted' = <<>>
    /\ IF alive[e]
       THEN /\ hasTimers' = [hasTimers EXCEPT ![e] = TRUE]
            /\ IF Has(timers[e], t)
               THEN timers' = [timers EXCEPT ![e] = Put(@, t, TimerPause(Get(@, t)))]
               ELSE UNCHANGED timers
       ELSE UNCHANGED <<hasTimers, timers>>
    /\ UNCHANGED <<alive, hist, cancelled, cancelHits, starts, ticks>>

\* PauseTimer::apply
PauseTimer(e, t) ==
    /\ emitted' = <<>>
    /\ IF Found(e, t)
       THEN timers' = [timers EXCEPT ![e] = Put(@, t, TimerPause(Get(@, t)))]
       ELSE UNCHANGED timers
    /\ UNCHANGED <<alive, hasTimers, hist, cancelled, cancelHits, starts, ticks>>

\* UnpauseTimer::apply
UnpauseTimer(e, t) ==
    /\ emitted' = <<>>
    /\ IF Found(e, t)
       THEN timers' = [timers EXCEPT ![e] = Put(@, t, TimerUnpause(Get(@, t)))]
       ELSE UNCHANGED timers
    /\ UNCHANGED <<alive, hasTimers, hist, cancelled, cancelHits, starts, ticks>>

\* a cancel that triggers OnTimerCancelled whether or not it removed a timer
CancelTimerAlways(e, t) ==
    /\ emitted' = <<Trigger(OnTimerCancelled, e, t)>>
    /\ IF Found(e, t)
       THEN /\ timers' = [timers EXCEPT ![e] = SwapRemove(@, t)]
            /\ hist' = [hist EXCEPT ![e][t].removed = TRUE]
            /\ cancelHits' = [cancelHits EXCEPT ![e][t] = @ + 1]
       ELSE UNCHANGED <<timers, hist, cancelHits>>
    /\ cancelled' = TallyCancelled
    /\ UNCHANGED <<alive, hasTimers, starts, ticks>>

\* a cancel that removes the timer and triggers nothing
CancelTimerQuiet(e, t) ==
    /\ emitted' = <<>>
    /\ IF Found(e, t)
       THEN /\ timers' = [timers EXCEPT ![e] = SwapRemove(@, t)]
            /\ hist' = [hist EXCEPT ![e][t].removed = TRUE]
            /\ cancelHits' = [cancelHits EXCEPT ![e][t] = @ + 1]
       ELSE UNCHANGED <<timers, hist, cancelHits>>
    /\ cancelled' = TallyCancelled
    /\ UNCHANGED <<alive, hasTimers, starts, ticks>>

\* CancelTimer::apply
CancelTimer(e, t) ==
    /\ IF Found(e, t)
       THEN /\ timers' = [timers EXCEPT ![e] = SwapRemove(@, t)]
            /\ emitted' = <<Trigger(OnTimerCancelled, e, t)>>
            /\ hist' = [hist EXCEPT ![e][t].removed = TRUE]
            /\ cancelHits' = [cancelHits EXCEPT ![e][t] = @ + 1]
       ELSE /\ emitted' = <<>>
            /\ UNCHANGED <<timers, hist, cancelHits>>
    /\ cancelled' = TallyCancelled
    /\ UNCHANGED <<alive, hasTimers, starts, ticks>>

\* tick_entity_timers: every entity of the query, one shared delta
Tick(delta, ord) ==
    /\ ticks' = ticks + 1
    /\ timers' = [e \in Entities |->
                     IF hasTimers[e] THEN TickMap(timers[e], delta)
                     ELSE timers[e]]
    /\ emitted' = AllTriggers(ord, timers, delta)
    /\ hist' = [e \in Entities |-> [t \in Tags |->
                     TickHist(hist[e][t], e, t, delta)]]
    /\ cancelled' = TallyCancelled
    /\ UNCHANGED <<alive, hasTimers, cancelHits, starts>>

\* the world despawns the entity, and its Timers component with it
Despawn(e) ==
    /\ alive[e]
    /\ alive' = [alive EXCEPT ![e] = FALSE]
    /\ hasTimers' = [hasTimers EXCEPT ![e] = FALSE]
    /\ timers' = [timers EXCEPT ![e] = <<>>]
    /\ hist' = [hist EXCEPT ![e] = [t \in Tags |->
                     [@[t] EXCEPT !.removed = @ \/ hist[e][t].started]]]
    /\ emitted' = <<>>
    /\ UNCHANGED <<cancelled, cancelHits, starts, ticks>>

\* the steps of a host that starts timers at the pairs of targets only, at
\* most maxStarts times, and runs the tick system at most maxTicks times; it
\* flushes every command as it queues it, and its observers queue none
NextOn(targets, maxStarts, maxTicks) ==
    \/ \E p \in targets, d \in Durations, mode \in TimerModes :
           /\ starts < maxStarts /\ StartTimer(p[1], p[2], NewTimer(d, mode))
           /\ UNCHANGED <<queue, applied>>
    \/ \E e \in Entities, t \in Tags :
           ResetTimer(e, t) /\ UNCHANGED <<queue, applied>>
    \/ \E e \in Entities, t \in Tags :
           PauseTimer(e, t) /\ UNCHANGED <<queue, applied>>
    \/ \E e \in Entities, t \in Tags :
           UnpauseTimer(e, t) /\ UNCHANGED <<queue, applied>>
    \/ \E e \in Entities, t \in Tags :
           CancelTimer(e, t) /\ UNCHANGED <<queue, applied>>
    \/ \E delta \in Deltas :
           \E ord \in Orders({e \in Entities : hasTimers[e]}) :
               /\ ticks < maxTicks /\ Tick(delta, ord)
               /\ UNCHANGED <<queue, applied>>
    \/ \E e \in Entities : Despawn(e) /\ UNCHANGED <<queue, applied>>

\* one timer followed through its whole life, commands aimed at every pair
SoloTargets == {<<"e1", "A">>}

Next == NextOn(SoloTargets, MaxStarts, MaxTicks)

Spec == Init /\ [][Next]_vars

\* a host that only starts, cancels and ticks the timers of one entity, every
\* tag of it, each timer one period long
NextOrder ==
    \/ \E t \in Tags, mode \in TimerModes :
           /\ starts < MaxStarts + 1
           /\ StartTimer("e1", t, NewTimer(Period, mode))
           /\ UNCHANGED <<queue, applied>>
    \/ \E t \in Tags : CancelTimer("e1", t) /\ UNCHANGED <<queue, applied>>
    \/ \E delta \in Deltas :
           \E ord \in Orders({e \in Entities : hasTimers[e]}) :
               /\ ticks < OrderTicks /\ Tick(delta, ord)
               /\ UNCHANGED <<queue, applied>>

SpecOrder == Init /\ [][NextOrder]_vars

\* the pairs of timers a two-timer host keeps: two tags of one entity, or one
\* tag on each of two entities
TargetSets ==
    {{<<"e1", "A">>, <<"e1", "B">>}, {<<"e1", "A">>, <<"e2", "A">>}}

ManyTargets == UNION TargetSets

\* the pairs a timer was started at
Started == {p \in Entities \X Tags : hist[p[1]][p[2]].started}

\* the host keeps to one of its pairs of timers
MayStart(p) == \E S \in TargetSets : p \in S /\ Started \subseteq S

\* a host with two timers, each one period long, that applies every command
\* to them and runs the tick system once
NextMany ==
    \/ \E p \in ManyTargets, mode \in TimerModes :
           /\ starts < MaxStarts /\ MayStart(p)
           /\ StartTimer(p[1], p[2], NewTimer(Period, mode))
           /\ UNCHANGED <<queue, applied>>
    \/ \E p \in ManyTargets :
           ResetTimer(p[1], p[2]) /\ UNCHANGED <<queue, applied>>
    \/ \E p \in ManyTargets :
           PauseTimer(p[1], p[2]) /\ UNCHANGED <<queue, applied>>
    \/ \E p \in ManyTargets :
           UnpauseTimer(p[1], p[2]) /\ UNCHANGED <<queue, applied>>
    \/ \E p \in ManyTargets :
           CancelTimer(p[1], p[2]) /\ UNCHANGED <<queue, applied>>
    \/ \E delta \in Deltas :
           \E ord \in Orders({e \in Entities : hasTimers[e]}) :
               /\ ticks = 0 /\ Tick(delta, ord)
               /\ UNCHANGED <<queue, applied>>

SpecMany == Init /\ [][NextMany]_vars

-----------------------------------------------------------------------------
(* The host that queues its commands, and observers that answer a trigger *)

\* the start commands waiting in the queue
PendingStarts == Cardinality({i \in DOMAIN queue : queue[i].op = StartOp})

\* the commands of the host waiting in the queue
PendingHost == Cardinality({i \in DOMAIN queue : queue[i].by = Host})

\* the commands the host may queue for the timer of tag at entity e
HostCommands(e, t) ==
    {Command(StartOp, e, t, NewTimer(Period, mode), Host) : mode \in TimerModes}
        \cup {Command(op, e, t, NoTimer, Host) :
                  op \in {ResetOp, PauseOp, UnpauseOp, CancelOp}}

\* EntityCommand::apply of a queued command
Apply(c) ==
    CASE c.op = StartOp -> StartTimer(c.entity, c.tag, c.timer)
      [] c.op = ResetOp -> ResetTimer(c.entity, c.tag)
      [] c.op = PauseOp -> PauseTimer(c.entity, c.tag)
      [] c.op = UnpauseOp -> UnpauseTimer(c.entity, c.tag)
      [] c.op = CancelOp -> CancelTimer(c.entity, c.tag)

\* a command that is applied where it is issued and never queued
IssueApplies(c) ==
    Apply(c) /\ UNCHANGED <<queue, applied>>

\* EntityCommands::queue: the command waits for the flush
Issue(c) ==
    /\ queue' = Append(queue, c)
    /\ emitted' = <<>>
    /\ UNCHANGED <<alive, hasTimers, timers, hist, cancelled, cancelHits,
                   starts, ticks, applied>>

\* what an observer of OnTimerFinished queues when the trigger for (e, t)
\* reaches it: nothing, a cancel of the timer as in the crate's example, or a
\* start of a timer at the same tag
Reactions(e, t) ==
    {<<>>, <<Command(CancelOp, e, t, NoTimer, Observer)>>}
        \cup {<<Command(StartOp, e, t, NewTimer(Period, mode), Observer)>> :
                  mode \in TimerModes}

\* the queue after an observer has queued its commands: the flush applies
\* them next, before the commands that were waiting
React(q, reaction) == reaction \o q

\* the trigger_targets command of the tick system is applied: the observers
\* of OnTimerFinished run, no map changes
Observe(c, reaction) ==
    /\ queue' = React(Tail(queue), reaction)
    /\ emitted' = <<>>
    /\ UNCHANGED <<alive, hasTimers, timers, hist, cancelled, cancelHits,
                   starts, ticks>>

\* one command of a flush: the oldest command of the queue is applied
FlushOne(maxStarts) ==
    /\ queue # <<>>
    /\ applied' = Head(queue)
    /\ IF Head(queue).op = TriggerOp
       THEN \E r \in Reactions(Head(queue).entity, Head(queue).tag) :
                /\ \A i \in DOMAIN r :
                       r[i].op = StartOp => starts + PendingStarts < maxStarts
                /\ Observe(Head(queue), r)
       ELSE Apply(Head(queue)) /\ queue' = Tail(queue)

\* the triggers a tick enqueued, as commands of the tick system
TriggerCommands(triggers) ==
    [i \in DOMAIN triggers |->
        Command(TriggerOp, triggers[i].entity, triggers[i].tag, NoTimer, TickSystem)]

\* tick_entity_timers with its ParallelCommands: its triggers join the queue;
\* the system runs again only after its commands, and those the observers
\* queued in answer, were applied
RunTick(delta, ord) ==
    /\ \A i \in DOMAIN queue : queue[i].by = Host
    /\ Tick(delta, ord)
    /\ queue' = queue \o TriggerCommands(emitted')
    /\ UNCHANGED applied

\* a host that queues commands for one timer, one command between two
\* flushes of its commands, flushes command by command and runs the tick
\* system, with an observer of OnTimerFinished
NextDefer ==
    \/ \E p \in SoloTargets : \E c \in HostCommands(p[1], p[2]) :
           /\ PendingHost = 0
           /\ c.op = StartOp => starts + PendingStarts < MaxStarts
           /\ Issue(c)
    \/ FlushOne(MaxStarts)
    \/ \E delta \in Deltas :
           \E ord \in Orders({e \in Entities : hasTimers[e]}) :
               ticks < MaxTicks /\ RunTick(delta, ord)

SpecDefer == Init /\ [][NextDefer]_vars

-----------------------------------------------------------------------------
(* The properties *)

Pairs == Entities \X Tags

\* the timers a host builds with Timer::new and hands to start_timer
TimerInputs == {NewTimer(d, mode) : d \in Durations, mode \in TimerModes}

\* the instance was never reset, cancelled or despawned, and no tick met it
\* paused
Undisturbed(h) == ~h.wasReset /\ ~h.removed /\ h.held = 0

\* the OnTimerFinished triggers for (e, t) among those of the last operation
FinishedNow(e, t) == Count(emitted, Trigger(OnTimerFinished, e, t))

\* C1: an undisturbed Once timer of duration D > 0 has emitted no
\* OnTimerFinished and is in the map while the delta it was ticked with is
\* below D, and has emitted exactly one and is out of the map from the tick
\* on that brought the delta to D.
C1_OnceFinishesOnceAndLeaves ==
    \A p \in Pairs :
        LET h == hist[p[1]][p[2]]
        IN  (h.started /\ h.mode = Once /\ h.duration > 0 /\ Undisturbed(h)) =>
                IF h.cum >= h.duration
                THEN h.fin = 1 /\ ~Found(p[1], p[2])
                ELSE h.fin = 0 /\ Found(p[1], p[2])

\* an undisturbed Once timer finished, and a later tick has run since
C1_Witness ==
    \E p \in Pairs :
        LET h == hist[p[1]][p[2]]
        IN  /\ h.started /\ h.mode = Once /\ h.duration > 0 /\ Undisturbed(h)
            /\ h.cum > h.duration + MaxDelta
            /\ h.fin = 1
            /\ ~Found(p[1], p[2])

\* C2: an OnTimerFinished trigger for a timer of duration D > 0 is emitted
\* only when the delta it was ticked with since its start or last reset has
\* reached D: the start itself and a zero tick of a fresh timer emit none.
C2_NoFinishBeforeDuration ==
    \A i \in 1 .. Len(emitted) :
        emitted[i].event = OnTimerFinished =>
            LET h == hist[emitted[i].entity][emitted[i].tag]
            IN  h.started /\ (h.duration > 0 => h.cum >= h.duration)

\* a timer was ticked, for less than its duration, and has emitted nothing
C2_Witness ==
    \E p \in Pairs :
        LET h == hist[p[1]][p[2]]
        IN  /\ Found(p[1], p[2]) /\ h.duration > 0
            /\ 0 < h.cum /\ h.cum < h.duration
            /\ h.fin = 0 /\ ticks >= 2 /\ emitted = <<>>

\* C3: an undisturbed Repeating timer of duration D > 0 ticked with N * D in
\* all has emitted exactly N OnTimerFinished triggers, however the delta was
\* split over the ticks.
C3_OneFinishPerPeriod ==
    \A p \in Pairs :
        LET h == hist[p[1]][p[2]]
        IN  (h.started /\ h.mode = Repeating /\ h.duration > 0 /\ Undisturbed(h)
                /\ h.cum % h.duration = 0) =>
                h.fin = h.cum \div h.duration

\* C4: a Repeating timer that was neither cancelled nor despawned is still in
\* its entity's map, whatever ticks, pauses, unpauses and resets it has seen.
C4_RepeatingStays ==
    \A p \in Pairs :
        LET h == hist[p[1]][p[2]]
        IN  (h.started /\ h.mode = Repeating /\ ~h.removed) =>
                /\ Found(p[1], p[2])
                /\ Get(timers[p[1]], p[2]).mode = Repeating

\* a Repeating timer that was reset, met a tick while paused and has just
\* finished in the last tick is in the map
C4_Witness ==
    \E p \in Pairs :
        LET h == hist[p[1]][p[2]]
        IN  /\ h.started /\ h.mode = Repeating /\ h.duration > 0
            /\ h.wasReset /\ h.held > 0 /\ h.fin >= 1
            /\ Found(p[1], p[2])
            /\ JustFinished(Get(timers[p[1]], p[2]))
            /\ FinishedNow(p[1], p[2]) = 1

\* C5: a cancel that finds the tag removes it and emits exactly the one
\* OnTimerCancelled trigger for it; a cancel that does not find it emits
\* nothing and leaves every map as it is; so the OnTimerCancelled triggers for
\* a pair are as many as the cancels that found it.
C5_CancelTellsOnce ==
    /\ [](cancelled = cancelHits)
    /\ [][\A p \in Pairs :
             CancelTimer(p[1], p[2]) =>
                 IF Found(p[1], p[2])
                 THEN /\ ~Found(p[1], p[2])'
                      /\ emitted' = <<Trigger(OnTimerCancelled, p[1], p[2])>>
                 ELSE /\ emitted' = <<>>
                      /\ timers' = timers
                      /\ hasTimers' = hasTimers]_vars

\* a cancel has just removed a timer
C5_Witness ==
    \E p \in Pairs :
        /\ cancelHits[p[1]][p[2]] = 1
        /\ cancelled[p[1]][p[2]] = 1
        /\ emitted = <<Trigger(OnTimerCancelled, p[1], p[2])>>
        /\ alive[p[1]] /\ hasTimers[p[1]] /\ ~Has(timers[p[1]], p[2])

\* C6: a start on a live entity leaves exactly the started timer at the tag,
\* one entry for the tag, nothing of a timer that was there before, and emits
\* nothing; a start that replaces a timer leaves the map as long as it was.
C6_StartReplaces ==
    [][\A p \in Pairs, timer \in TimerInputs :
          (StartTimer(p[1], p[2], timer) /\ alive[p[1]]) =>
              /\ hasTimers'[p[1]]
              /\ Has(timers'[p[1]], p[2])
              /\ Get(timers'[p[1]], p[2]) = timer
              /\ Count(Keys(timers'[p[1]]), p[2]) = 1
              /\ Len(timers'[p[1]]) =
                     IF Found(p[1], p[2]) THEN Len(timers[p[1]])
                     ELSE Len(timers[p[1]]) + 1
              /\ emitted' = <<>>]_vars

\* after a tick, the second start has replaced the timer the first start put
\* at the tag: the tag holds a fresh timer and no trigger was emitted for it
C6_Witness ==
    \E p \in Pairs :
        LET h == hist[p[1]][p[2]]
        IN  /\ starts = 2 /\ h.entered = 1 /\ ticks >= 1
            /\ Found(p[1], p[2])
            /\ Get(timers[p[1]], p[2]) \in TimerInputs
            /\ h.cum = 0 /\ h.fin = 0 /\ cancelled[p[1]][p[2]] = 0
            /\ emitted = <<>>

\* C7: the elapsed progress of a timer is the unpaused delta it was ticked
\* with (modulo the duration for a Repeating timer), so ticks that meet it
\* paused change nothing; a Once timer finishes exactly when the unpaused
\* delta reaches its duration; a tick that meets a timer paused leaves its
\* elapsed progress and emits no OnTimerFinished for it; pause and unpause
\* set the flag and leave the elapsed progress.
C7_PauseFreezes ==
    /\ [](\A p \in Pairs :
             LET h == hist[p[1]][p[2]]
             IN  (Found(p[1], p[2]) /\ h.duration > 0) =>
                     Get(timers[p[1]], p[2]).elapsed =
                         IF h.mode = Once THEN Run(h) ELSE Run(h) % h.duration)
    /\ [](\A p \in Pairs :
             LET h == hist[p[1]][p[2]]
             IN  (h.started /\ h.mode = Once /\ h.duration > 0 /\ ~h.removed) =>
                     IF Run(h) >= h.duration
                     THEN h.fin = 1 /\ ~Found(p[1], p[2])
                     ELSE h.fin = 0 /\ Found(p[1], p[2]))
    /\ [][\A p \in Pairs :
             (Found(p[1], p[2]) /\ Get(timers[p[1]], p[2]).paused
                 /\ ticks' = ticks + 1) =>
                 /\ Found(p[1], p[2])'
                 /\ Get(timers'[p[1]], p[2]).elapsed =
                        Get(timers[p[1]], p[2]).elapsed
                 /\ Get(timers'[p[1]], p[2]).paused
                 /\ Count(emitted', Trigger(OnTimerFinished, p[1], p[2])) = 0]_vars
    /\ [][\A p \in Pairs :
             /\ (PauseTimer(p[1], p[2]) /\ Found(p[1], p[2])) =>
                    /\ Found(p[1], p[2])'
                    /\ Get(timers'[p[1]], p[2]) =
                           [Get(timers[p[1]], p[2]) EXCEPT !.paused = TRUE]
             /\ (UnpauseTimer(p[1], p[2]) /\ Found(p[1], p[2])) =>
                    /\ Found(p[1], p[2])'
                    /\ Get(timers'[p[1]], p[2]) =
                           [Get(timers[p[1]], p[2]) EXCEPT !.paused = FALSE]]_vars

\* a Once timer was ticked, met a tick of positive delta while paused, was
\* unpaused and has just finished on reaching its duration in unpaused delta
C7_Witness ==
    \E p \in Pairs :
        LET h == hist[p[1]][p[2]]
        IN  /\ h.started /\ h.mode = Once /\ h.duration > 0 /\ ~h.removed
            /\ h.held > 0
            /\ Run(h) = h.duration
            /\ ticks = MaxTicks
            /\ h.fin = 1 /\ FinishedNow(p[1], p[2]) = 1
            /\ ~Found(p[1], p[2])

\* C8: a reset of a timer that is there sets its elapsed progress to zero,
\* leaves its duration, mode and paused flag and the order of the map, and
\* emits nothing; after it OnTimerFinished is emitted only once a full
\* duration of unpaused delta has passed again.
C8_ResetRewinds ==
    /\ [][\A p \in Pairs :
             (ResetTimer(p[1], p[2]) /\ Found(p[1], p[2])) =>
                 /\ Found(p[1], p[2])'
                 /\ Get(timers'[p[1]], p[2]).elapsed = 0
                 /\ Get(timers'[p[1]], p[2]).duration =
                        Get(timers[p[1]], p[2]).duration
                 /\ Get(timers'[p[1]], p[2]).mode = Get(timers[p[1]], p[2]).mode
                 /\ Get(timers'[p[1]], p[2]).paused =
                        Get(timers[p[1]], p[2]).paused
                 /\ Keys(timers'[p[1]]) = Keys(timers[p[1]])
                 /\ emitted' = <<>>]_vars
    /\ [](\A p \in Pairs :
             LET h == hist[p[1]][p[2]]
             IN  (h.wasReset /\ h.duration > 0 /\ FinishedNow(p[1], p[2]) > 0) =>
                     Run(h) >= h.duration)

\* a Once timer was reset and has just finished, a full duration of delta
\* after the reset
C8_Witness ==
    \E p \in Pairs :
        LET h == hist[p[1]][p[2]]
        IN  /\ h.started /\ h.mode = Once /\ h.duration > 0 /\ h.wasReset
            /\ h.held = 0 /\ h.cum = h.duration
            /\ ticks = MaxTicks
            /\ h.fin = 1 /\ FinishedNow(p[1], p[2]) = 1
            /\ ~Found(p[1], p[2])

\* C9: a start on a despawned entity, and a reset, pause, unpause or cancel
\* on a despawned entity, on an entity without a Timers component or on a tag
\* that is not in the map, changes no map, adds no Timers component and emits
\* nothing.
C9_AbsentTargetIsNoOp ==
    [][\A p \in Pairs :
          \/ /\ ~alive[p[1]]
             /\ \E timer \in TimerInputs : StartTimer(p[1], p[2], timer)
          \/ /\ ~Found(p[1], p[2])
             /\ \/ ResetTimer(p[1], p[2])
                \/ PauseTimer(p[1], p[2])
                \/ UnpauseTimer(p[1], p[2])
                \/ CancelTimer(p[1], p[2])
          => /\ timers' = timers
             /\ hasTimers' = hasTimers
             /\ alive' = alive
             /\ emitted' = <<>>]_vars

\* a start was applied to a despawned entity: nothing is recorded at its tag
\* and the entity holds no Timers component
C9_Witness ==
    \E p \in Pairs :
        /\ starts >= 1
        /\ ~alive[p[1]] /\ ~hasTimers[p[1]] /\ timers[p[1]] = <<>>
        /\ ~hist[p[1]][p[2]].started
        /\ \A q \in Pairs : ~hist[q[1]][q[2]].started

\* C10: of two tags in an entity's map, the one that entered the map first
\* comes first in the iteration order.
C10_IterationIsInsertionOrder ==
    \A e \in Entities :
        \A i, j \in 1 .. Len(timers[e]) :
            i < j => hist[e][timers[e][i].tag].entered
                         < hist[e][timers[e][j].tag].entered

\* the host has only started timers so far: no tick has run, no cancel has
\* removed a timer and the entity was not despawned
OnlyStarted(e) ==
    alive[e] /\ ticks = 0 /\ \A t \in Tags : cancelHits[e][t] = 0

\* C11: while only starts were applied to an entity, its map holds exactly
\* one entry for every tag that was started and none for any other, and
\* iterates them in the order in which the tags were first started: a start
\* on a tag that is in the map leaves the tag where it is.
C11_StartsKeepFirstInsertionOrder ==
    \A e \in Entities :
        OnlyStarted(e) =>
            LET k == Keys(timers[e])
            IN  /\ \A t \in Tags :
                       Count(k, t) = IF hist[e][t].started THEN 1 ELSE 0
                /\ \A i, j \in 1 .. Len(k) :
                       i < j => hist[e][k[i]].entered < hist[e][k[j]].entered

\* three starts on two tags: the third start met its tag in the map, and the
\* tags iterate in the order of the first two starts
C11_Witness ==
    \E e \in Entities :
        LET k == Keys(timers[e])
        IN  /\ OnlyStarted(e) /\ starts = 3
            /\ Len(k) = 2
            /\ hist[e][k[1]].entered = 1
            /\ hist[e][k[2]].entered = 2

\* the delta of the tick that is the step, read off the history of a timer
\* that is in the map
DeltaOf(e, t) == hist'[e][t].cum - hist[e][t].cum

\* the step is a run of tick_entity_timers
IsTick == ticks' = ticks + 1

\* the timer of tag is in the map of live entity e after the step
FoundNext(e, t) == alive'[e] /\ hasTimers'[e] /\ Has(timers'[e], t)

\* C12: a trigger names the pair of a timer that was in the map: an
\* OnTimerFinished trigger comes from a tick in which the timer at its pair
\* just finished, an OnTimerCancelled trigger from the cancel that removed
\* the timer at its pair; no pair is named twice by one operation, and a
\* tick names every timer that just finished in it.
C12_TriggerNamesItsTimer ==
    [][/\ \A i \in 1 .. Len(emitted') :
              LET e == emitted'[i].entity
                  t == emitted'[i].tag
              IN  /\ Found(e, t)
                  /\ Count(emitted', emitted'[i]) = 1
                  /\ emitted'[i].event = OnTimerFinished =>
                         /\ IsTick
                         /\ JustFinished(TimerTick(Get(timers[e], t), DeltaOf(e, t)))
                  /\ emitted'[i].event = OnTimerCancelled =>
                         /\ CancelTimer(e, t)
                         /\ ~FoundNext(e, t)
       /\ \A p \in Pairs :
              (IsTick /\ Found(p[1], p[2])
                  /\ JustFinished(TimerTick(Get(timers[p[1]], p[2]),
                                             DeltaOf(p[1], p[2])))) =>
                  Count(emitted', Trigger(OnTimerFinished, p[1], p[2])) = 1]_vars

\* a tick found two timers on one entity and only one of them just finished:
\* the one trigger names it, the other timer is in the map and has emitted
\* nothing
C12_Witness ==
    \E e \in Entities, t \in Tags, u \in Tags :
        /\ t # u /\ ticks = 1
        /\ emitted = <<Trigger(OnTimerFinished, e, t)>>
        /\ Found(e, u) /\ hist[e][u].fin = 0
        /\ hist[e][t].fin = 1

\* the step applies the oldest command of the queue
IsFlush == queue # <<>> /\ ticks' = ticks /\ Len(queue') <= Len(queue)

\* the trigger commands for (e, t) waiting in queue q
Waiting(q, e, t) ==
    Count(q, Command(TriggerOp, e, t, NoTimer, TickSystem))

\* C13: a run of the tick system finds no trigger of an earlier run and no
\* command of an observer waiting, so the cancel an observer queued on
\* OnTimerFinished(e, t) is applied before the next tick; applied to a timer
\* that is in the map it removes it and emits exactly one OnTimerCancelled for
\* (e, t); a tick emits no OnTimerFinished for a pair that is not in the map,
\* and only a start puts a pair into the map; a tick whose delta is the
\* duration of a running Repeating timer enqueues exactly one OnTimerFinished
\* trigger for it.
C13_ObserverCancelStopsRepeating ==
    /\ [][IsTick => \A i \in DOMAIN queue : queue[i].by = Host]_vars
    /\ [][\A p \in Pairs :
             (IsFlush /\ Head(queue) = Command(CancelOp, p[1], p[2], NoTimer, Observer)) =>
                 /\ ~FoundNext(p[1], p[2])
                 /\ emitted' = IF Found(p[1], p[2])
                               THEN <<Trigger(OnTimerCancelled, p[1], p[2])>>
                               ELSE <<>>
                 /\ cancelled'[p[1]][p[2]] = cancelled[p[1]][p[2]] + Len(emitted')]_vars
    /\ [][\A p \in Pairs :
             /\ ~Found(p[1], p[2]) =>
                    Count(emitted', Trigger(OnTimerFinished, p[1], p[2])) = 0
             /\ (~Found(p[1], p[2]) /\ FoundNext(p[1], p[2])) =>
                    starts' = starts + 1]_vars
    /\ [][\A p \in Pairs :
             (IsTick /\ Found(p[1], p[2])
                 /\ Get(timers[p[1]], p[2]).mode = Repeating
                 /\ ~Get(timers[p[1]], p[2]).paused
                 /\ Get(timers[p[1]], p[2]).duration > 0
                 /\ DeltaOf(p[1], p[2]) = Get(timers[p[1]], p[2]).duration) =>
                 /\ Count(emitted', Trigger(OnTimerFinished, p[1], p[2])) = 1
                 /\ Waiting(queue', p[1], p[2]) = 1]_vars

\* a Repeating timer finished in a tick of one duration, the observer answered
\* with a cancel, the cancel removed the timer and told so once, and a tick
\* has run since that emitted nothing
C13_Witness ==
    \E p \in Pairs :
        LET h == hist[p[1]][p[2]]
        IN  /\ applied = Command(CancelOp, p[1], p[2], NoTimer, Observer)
            /\ h.mode = Repeating /\ h.duration > 0
            /\ h.cum = h.duration /\ h.fin = 1 /\ h.removed
            /\ cancelled[p[1]][p[2]] = 1
            /\ ticks = 2 /\ queue = <<>> /\ emitted = <<>>
            /\ ~Found(p[1], p[2])

\* C14: of two OnTimerFinished triggers that one tick enqueues for the same
\* entity, the one enqueued first names the tag that came first in the
\* iteration order of the entity's map when the tick began.
C14_TriggersInIterationOrder ==
    [][IsTick =>
          \A i, j \in 1 .. Len(emitted') :
              (i < j /\ emitted'[i].entity = emitted'[j].entity) =>
                  IndexOf(timers[emitted'[i].entity], emitted'[i].tag)
                      < IndexOf(timers[emitted'[j].entity], emitted'[j].tag)]_vars

\* two Repeating timers of one entity just finished in the same tick, and the
\* two triggers are in the order of the map
C14_Witness ==
    \E e \in Entities, t \in Tags, u \in Tags :
        /\ t # u /\ ticks = 1
        /\ alive[e] /\ hasTimers[e] /\ Keys(timers[e]) = <<t, u>>
        /\ emitted = <<Trigger(OnTimerFinished, e, t),
                       Trigger(OnTimerFinished, e, u)>>

\* the step queues a command of the host
IsIssue ==
    /\ Len(queue') = Len(queue) + 1
    /\ queue'[Len(queue')].by = Host

\* C15: queueing a command changes no map, adds no Timers component and
\* emits nothing; the maps change only in the steps of a flush and in the
\* runs of the tick system, and a start that is flushed on a live entity
\* puts its timer into the map then; a run of the tick system applies no
\* command, and the tags it removes from an entity's map are exactly the
\* tags of Once timers for which that run enqueued OnTimerFinished.
C15_CommandsWaitForFlush ==
    /\ [][IsIssue =>
              /\ timers' = timers /\ hasTimers' = hasTimers /\ alive' = alive
              /\ hist' = hist /\ cancelled' = cancelled
              /\ emitted' = <<>>
              /\ Len(SelectSeq(queue', LAMBDA c : c.op = TriggerOp))
                     = Len(SelectSeq(queue, LAMBDA c : c.op = TriggerOp))]_vars
    /\ [][(timers' # timers \/ hasTimers' # hasTimers) => IsFlush \/ IsTick]_vars
    /\ [][(IsFlush /\ Head(queue).op = StartOp /\ alive[Head(queue).entity]) =>
              /\ FoundNext(Head(queue).entity, Head(queue).tag)
              /\ Get(timers'[Head(queue).entity], Head(queue).tag)
                     = Head(queue).timer]_vars
    /\ [][IsTick =>
              /\ applied' = applied
              /\ SubSeq(queue', 1, Len(queue)) = queue
              /\ \A p \in Pairs :
                     FoundNext(p[1], p[2]) <=>
                         /\ Found(p[1], p[2])
                         /\ ~ /\ Get(timers[p[1]], p[2]).mode = Once
                               /\ Count(emitted', Trigger(OnTimerFinished, p[1], p[2])) > 0]_vars

\* a cancel of the host waits in the queue while a run of the tick system
\* has made the Repeating timer it aims at finish: the timer is in the map,
\* and the trigger of the run waits behind the cancel
C15_Witness ==
    \E p \in Pairs :
        /\ queue = <<Command(CancelOp, p[1], p[2], NoTimer, Host),
                     Command(TriggerOp, p[1], p[2], NoTimer, TickSystem)>>
        /\ Found(p[1], p[2])
        /\ emitted = <<Trigger(OnTimerFinished, p[1], p[2])>>
        /\ cancelled[p[1]][p[2]] = 0

\* the triggers of seq that name entity e, in their order
OfEntity(seq, e) == SelectSeq(seq, LAMBDA g : g.entity = e)

Targets(e, t) ==
    \/ \E timer \in TimerInputs : StartTimer(e, t, timer)
    \/ ResetTimer(e, t)
    \/ PauseTimer(e, t)
    \/ UnpauseTimer(e, t)
    \/ CancelTimer(e, t)

\* the tick that is the step sweeps the timer of tag t from the map of e
Swept(e, t) ==
    /\ IsTick /\ Found(e, t)
    /\ Get(timers[e], t).mode = Once
    /\ Count(emitted', Trigger(OnTimerFinished, e, t)) > 0

\* C17: a command on (e, t) that changes a map leaves the map of every other
\* entity as it is and gives no other entity a Timers component, and leaves
\* in the map of e every other tag in or out as it was, with the timer it had; a tick leaves every timer it does not
\* sweep in the map, in the state its own tick(delta) gives, whatever other
\* tags of the entity the tick sweeps.
C17_OtherTimersUntouched ==
    /\ [][\A p \in Pairs :
             (~IsTick /\ timers' # timers /\ Targets(p[1], p[2])) =>
                 /\ hasTimers' = [hasTimers EXCEPT ![p[1]] = TRUE]
                 /\ \A f \in Entities \ {p[1]} :
                        timers'[f] = timers[f]
                 /\ \A u \in Tags \ {p[2]} :
                        /\ Has(timers'[p[1]], u) <=> Has(timers[p[1]], u)
                        /\ Has(timers[p[1]], u) =>
                               Get(timers'[p[1]], u) = Get(timers[p[1]], u)]_vars
    /\ [][\A p \in Pairs :
             (IsTick /\ Found(p[1], p[2]) /\ ~Swept(p[1], p[2])) =>
                 /\ FoundNext(p[1], p[2])
                 /\ Get(timers'[p[1]], p[2]) =
                        TimerTick(Get(timers[p[1]], p[2]), DeltaOf(p[1], p[2]))]_vars

\* a tick swept a Once timer that came before a Repeating timer in the map of
\* the same entity: the Repeating timer is in the map, advanced by the tick
C17_Witness ==
    \E e \in Entities, t \in Tags, u \in Tags :
        /\ t # u /\ ticks = 1
        /\ hist[e][t].mode = Once /\ hist[e][t].fin = 1
        /\ FinishedNow(e, t) = 1 /\ ~Found(e, t)
        /\ hist[e][t].entered < hist[e][u].entered
        /\ Found(e, u)
        /\ Get(timers[e], u).mode = Repeating
        /\ Get(timers[e], u).elapsed > 0

\* C18 as claimed: a timer of duration zero never emits OnTimerFinished and
\* is in the map until a cancel or a despawn takes it out.
C18_ZeroDurationInert ==
    \A p \in Pairs :
        LET h == hist[p[1]][p[2]]
        IN  (h.started /\ h.duration = 0) =>
                /\ h.fin = 0
                /\ ~h.removed => Found(p[1], p[2])

\* C18: a tick that meets a timer of duration zero paused emits nothing for
\* it and leaves it in the map; a tick that meets it running, whatever the
\* delta, emits exactly one OnTimerFinished for it, sweeps it when it is a
\* Once timer and leaves it in the map when it is a Repeating timer.  What
\* never finishes is a timer of positive duration that was ticked with zero
\* deltas only: it has emitted nothing and is in the map.
C18_ZeroDurationFinishesAtOnce ==
    /\ [][\A p \in Pairs :
             (IsTick /\ Found(p[1], p[2])
                 /\ Get(timers[p[1]], p[2]).duration = 0) =>
                 IF Get(timers[p[1]], p[2]).paused
                 THEN /\ Count(emitted', Trigger(OnTimerFinished, p[1], p[2])) = 0
                      /\ FoundNext(p[1], p[2])
                 ELSE /\ Count(emitted', Trigger(OnTimerFinished, p[1], p[2])) = 1
                      /\ FoundNext(p[1], p[2]) <=>
                             Get(timers[p[1]], p[2]).mode = Repeating]_vars
    /\ [](\A p \in Pairs :
             LET h == hist[p[1]][p[2]]
             IN  (h.started /\ h.duration > 0 /\ ~h.wasReset /\ ~h.removed
                     /\ h.cum = 0) =>
                     h.fin = 0 /\ Found(p[1], p[2]))

\* a Once timer of duration zero was ticked with zero deltas only: the tick
\* that met it running emitted its OnTimerFinished and swept it
C18_Witness ==
    \E p \in Pairs :
        LET h == hist[p[1]][p[2]]
        IN  /\ h.started /\ h.duration = 0 /\ h.mode = Once /\ ~h.removed
            /\ ticks >= 1 /\ h.cum = 0
            /\ h.fin = 1 /\ FinishedNow(p[1], p[2]) = 1
            /\ ~Found(p[1], p[2])

\* C19: a trigger for the pair of a Once timer, OnTimerFinished or
\* OnTimerCancelled, is the only one of the step for that pair and the first
\* for that timer: the timer has emitted no OnTimerFinished and was not
\* cancelled before, and after the step it has finished or is cancelled, and
\* is out of the map; so a Once timer has emitted at most one OnTimerFinished,
\* and none when a cancel removed it.
C19_OnceTellsAtMostOnce ==
    /\ [][\A p \in Pairs :
             LET h == hist[p[1]][p[2]]
                 told == Count(emitted', Trigger(OnTimerFinished, p[1], p[2]))
                            + Count(emitted', Trigger(OnTimerCancelled, p[1], p[2]))
             IN  (h.started /\ h.mode = Once /\ told > 0) =>
                     /\ told = 1
                     /\ h.fin = 0 /\ ~h.removed
                     /\ hist'[p[1]][p[2]].fin + cancelHits'[p[1]][p[2]]
                            = h.fin + cancelHits[p[1]][p[2]] + 1
                     /\ hist'[p[1]][p[2]].fin = 1 \/ hist'[p[1]][p[2]].removed
                     /\ ~FoundNext(p[1], p[2])]_vars
    /\ [](\A p \in Pairs :
             LET h == hist[p[1]][p[2]]
             IN  (h.started /\ h.mode = Once) =>
                     /\ h.fin <= 1
                     /\ h.fin = 1 => ~Found(p[1], p[2]))

\* a cancel of the host was flushed after the tick in which the Once timer
\* finished: it found the tag swept and emitted nothing
C19_Witness ==
    \E p \in Pairs :
        LET h == hist[p[1]][p[2]]
        IN  /\ applied = Command(CancelOp, p[1], p[2], NoTimer, Host)
            /\ h.started /\ h.mode = Once /\ h.fin = 1 /\ ~h.removed
            /\ starts = 1
            /\ cancelled[p[1]][p[2]] = 0 /\ cancelHits[p[1]][p[2]] = 0
            /\ emitted = <<>>
            /\ ~Found(p[1], p[2])

\* C20: the tick that enqueues OnTimerFinished for a Once timer sweeps the
\* timer in the same step, while the trigger still waits in the queue; the
\* step that delivers a trigger changes no map; the start an observer queued
\* in answer puts its timer into the map when it is flushed, fresh; and a
\* timer emits OnTimerFinished only when the unpaused delta it was ticked
\* with since its own start or last reset has reached its duration, and
\* until then it is in the map and, if never reset, has emitted none.
C20_RestartFromObserverRunsInFull ==
    /\ [][\A p \in Pairs :
             Swept(p[1], p[2]) =>
                 /\ ~FoundNext(p[1], p[2])
                 /\ Waiting(queue', p[1], p[2]) >= 1]_vars
    /\ [][(IsFlush /\ Head(queue).op = TriggerOp) =>
              timers' = timers /\ hasTimers' = hasTimers]_vars
    /\ [][\A p \in Pairs, mode \in TimerModes :
             (IsFlush /\ Head(queue) = Command(StartOp, p[1], p[2],
                                                NewTimer(Period, mode), Observer)) =>
                 /\ FoundNext(p[1], p[2])
                 /\ Get(timers'[p[1]], p[2]) = NewTimer(Period, mode)
                 /\ hist'[p[1]][p[2]].cum = 0
                 /\ hist'[p[1]][p[2]].fin = 0]_vars
    /\ [](\A p \in Pairs :
             LET h == hist[p[1]][p[2]]
             IN  /\ (h.started /\ FinishedNow(p[1], p[2]) > 0) =>
                        Run(h) >= h.duration
                 /\ (h.started /\ ~h.removed /\ Run(h) < h.duration) =>
                        /\ Found(p[1], p[2])
                        /\ ~h.wasReset => h.fin = 0)

\* the observer answered the OnTimerFinished of a Once timer with a start of
\* a Once timer at the same tag; the new timer was ticked for its whole
\* duration and has just finished, for the first time
C20_Witness ==
    \E p \in Pairs :
        LET h == hist[p[1]][p[2]]
        IN  /\ applied = Command(StartOp, p[1], p[2], NewTimer(Period, Once), Observer)
            /\ starts = 2 /\ ticks = 2
            /\ h.mode = Once /\ h.cum = h.duration /\ h.held = 0 /\ ~h.wasReset
            /\ h.fin = 1 /\ FinishedNow(p[1], p[2]) = 1
            /\ ~Found(p[1], p[2])

\* C21: with every timer started fresh (nothing elapsed), a timer of duration
\* D > 0 that is in a map between two operations has elapsed progress below
\* D: a Once timer in the map has not finished, because the tick in which it
\* reaches D sweeps it, and a Repeating timer's progress has wrapped.
C21_ElapsedBelowDuration ==
    \A p \in Pairs :
        (Found(p[1], p[2]) /\ Get(timers[p[1]], p[2]).duration > 0) =>
            /\ Get(timers[p[1]], p[2]).elapsed >= 0
            /\ Get(timers[p[1]], p[2]).elapsed < Get(timers[p[1]], p[2]).duration
            /\ Get(timers[p[1]], p[2]).mode = Once =>
                   ~Get(timers[p[1]], p[2]).finished

\* a Repeating timer has just finished in a tick whose delta went beyond a
\* period boundary: it is in the map with the remainder as its progress
C21_Witness ==
    \E p \in Pairs :
        LET h == hist[p[1]][p[2]]
        IN  /\ Found(p[1], p[2])
            /\ h.mode = Repeating /\ h.duration > 0
            /\ FinishedNow(p[1], p[2]) = 1
            /\ Run(h) > h.duration
            /\ Get(timers[p[1]], p[2]).elapsed > 0
            /\ Get(timers[p[1]], p[2]).elapsed < h.duration

====
